---- MODULE Spec2Model ----
(***************************************************************************)
(* Model of pyroomacoustics/directivities.py: DirectionVector, Directivity, *)
(* CardioidFamily, cardioid_func and source_angle_shoebox.                  *)
(*                                                                          *)
(* Floats are modelled as exact rationals <<numerator, denominator>>.       *)
(* Angles of a DirectionVector are rationals in units of pi (np.pi = 1).    *)
(***************************************************************************)
EXTENDS Integers, Sequences, FiniteSets, TLC

VARIABLES heap, model, handed, last,
          x, direction, call,
          image_source_array, n_array, mic, out

vars == <<heap, model, handed, last, x, direction, call,
          image_source_array, n_array, mic, out>>

objVars  == <<heap, model, handed, last>>
funcVars == <<x, direction, call>>
boxVars  == <<image_source_array, n_array, mic, out>>

-----------------------------------------------------------------------------
(* Bounds *)

\* DirectionVector objects that may be allocated
MaxObjs == 3
\* columns (points, image sources) of an input array
MaxN == 3
\* total number of reflections over all axes and image sources
MaxOrder == 2

-----------------------------------------------------------------------------
(* Float arithmetic, as exact rationals *)

Abs(n) == IF n < 0 THEN -n ELSE n

RECURSIVE GCD(_, _)
GCD(a, b) == IF b = 0 THEN a ELSE GCD(b, a % b)

\* the rational n/d in lowest terms with a positive denominator (d # 0)
Rat(n, d) ==
    LET g == GCD(Abs(n), Abs(d))
        s == IF d < 0 THEN -1 ELSE 1
    IN  <<(s * n) \div g, (s * d) \div g>>

I(n) == <<n, 1>>

RAdd(a, b) == Rat(a[1] * b[2] + b[1] * a[2], a[2] * b[2])
RSub(a, b) == Rat(a[1] * b[2] - b[1] * a[2], a[2] * b[2])
RMul(a, b) == Rat(a[1] * b[1], a[2] * b[2])
RDiv(a, b) == Rat(a[1] * b[2], a[2] * b[1])
RNeg(a)    == <<-a[1], a[2]>>
RAbs(a)    == <<Abs(a[1]), a[2]>>
RLeq(a, b) == a[1] * b[2] <= b[1] * a[2]
RGeq(a, b) == RLeq(b, a)

\* square root of a rational that is a perfect square
ISqrt(n) == CHOOSE r \in 0..n : r * r = n
RSqrt(a) == <<ISqrt(a[1]), ISqrt(a[2])>>

RECURSIVE SumSeq(_)
SumSeq(s) == IF s = <<>> THEN I(0) ELSE RAdd(s[1], SumSeq(Tail(s)))

\* np.pi, in units of pi
Pi == I(1)

\* np.radians and np.degrees
radians(deg) == RDiv(RMul(deg, Pi), I(180))
degrees(rad) == RDiv(RMul(rad, I(180)), Pi)

\* np.cos and np.sin on the multiples of pi/2
QuarterTurns(a) == (RMul(a, I(2))[1]) % 4
cos(a) == I(<<1, 0, -1, 0>>[QuarterTurns(a) + 1])
sin(a) == I(<<0, 1, 0, -1>>[QuarterTurns(a) + 1])

-----------------------------------------------------------------------------
(* Arrays: a (D, N) array is a sequence of D rows, each a sequence of N values *)

Shape0(a) == Len(a)
Shape1(a) == Len(a[1])

\* the array whose columns are cols
FromCols(cols, D) == [i \in 1..D |-> [j \in 1..Len(cols) |-> cols[j][i]]]
Col(a, j) == [i \in 1..Len(a) |-> a[i][j]]

\* np.matmul(v, a) of a vector v of shape (D,) and an array a of shape (D, N)
matmul(v, a) == [j \in 1..Shape1(a) |-> SumSeq([i \in 1..Len(v) |-> RMul(v[i], a[i][j])])]

\* np.ones(n)
ones(n) == [j \in 1..n |-> I(1)]

\* np.abs on a vector
npabs(v) == [j \in 1..Len(v) |-> RAbs(v[j])]

\* np.linalg.norm(v) of a vector, squared
NormSq(v) == SumSeq([i \in 1..Len(v) |-> RMul(v[i], v[i])])

-----------------------------------------------------------------------------
(* DirectivityPattern *)

Member(name, value) == [type |-> "DirectivityPattern", name |-> name, value |-> value]

FIGURE_EIGHT  == Member("FIGURE_EIGHT", I(0))
HYPERCARDIOID == Member("HYPERCARDIOID", Rat(1, 4))
CARDIOID      == Member("CARDIOID", Rat(1, 2))
SUBCARDIOID   == Member("SUBCARDIOID", Rat(3, 4))
OMNI          == Member("OMNI", I(1))

DirectivityPattern == {FIGURE_EIGHT, HYPERCARDIOID, CARDIOID, SUBCARDIOID, OMNI}

\* a Python float as a typed value
Float(r) == [type |-> "float", value |-> r]

\* Python's ==: an Enum member equals only itself, never a number
PyEq(a, b) == a.type = b.type /\ a.value = b.value

-----------------------------------------------------------------------------
(* DirectionVector *)

\* None, told apart from every float: no rational has denominator 0
None == <<0, 0>>

\* lines 28-34: the colatitude as stored
ConvertColatitude(colatitude, deg) ==
    IF colatitude = None THEN RDiv(Pi, I(2))
    ELSE IF deg THEN radians(colatitude) ELSE colatitude

ConvertAzimuth(azimuth, deg) == IF deg THEN radians(azimuth) ELSE azimuth

ColatitudeAssertStrict(colatitude) ==
    ~RLeq(colatitude, I(0)) /\ ~RGeq(colatitude, Pi)

\* line 35
ColatitudeAssert(colatitude) == RLeq(colatitude, Pi) /\ RGeq(colatitude, I(0))

\* lines 32-42: the object built once the assertion passed
DirectionVector(azimuth, colatitude, deg) ==
    LET az  == ConvertAzimuth(azimuth, deg)
        col == ConvertColatitude(colatitude, deg)
    IN  [azimuth    |-> az,
         colatitude |-> col,
         unit_v     |-> << RMul(cos(az), sin(col)),
                           RMul(sin(az), sin(col)),
                           cos(col) >>]

DV_get_azimuth(self, deg) == IF deg THEN degrees(self.azimuth) ELSE self.azimuth
DV_get_colatitude(self, deg) == IF deg THEN degrees(self.colatitude) ELSE self.colatitude
unit_vector(self) == self.unit_v

-----------------------------------------------------------------------------
(* Directivity and CardioidFamily *)

\* an argument passed where a DirectionVector is expected: a reference to an
\* object of the heap, or a value of another type
Ref(id) == [type |-> "DirectionVector", id |-> id]
NotADirectionVector == [type |-> "tuple", id |-> 0]

\* isinstance(orientation, DirectionVector)
IsDirectionVector(orientation) == orientation.type = "DirectionVector"

\* lines 62-64 and 90-94
CardioidFamily(orientation, pattern_enum, gain) ==
    [orientation  |-> orientation.id,
     p            |-> pattern_enum.value,
     gain         |-> gain,
     pattern_name |-> pattern_enum.name]

\* a replacement that overwrites the held DirectionVector instead of swapping it
SetOrientationInPlace(h, self, orientation) ==
    [heap  |-> [h EXCEPT ![self.orientation] = h[orientation.id]],
     model |-> self]

\* line 74: self._orientation = orientation
SetOrientation(h, self, orientation) ==
    [heap  |-> h,
     model |-> [self EXCEPT !.orientation = orientation.id]]

\* lines 66-70
get_azimuth(h, self, deg) == DV_get_azimuth(h[self.orientation], deg)
get_colatitude(h, self, deg) == DV_get_colatitude(h[self.orientation], deg)

\* lines 111-119
get_response(h, self, coord, magnitude) ==
    IF PyEq(Float(self.p), OMNI)
    THEN ones(Shape1(coord))
    ELSE LET mm   == matmul(unit_vector(h[self.orientation]), coord)
             resp == [j \in 1..Shape1(coord) |->
                        RAdd(RMul(self.gain, self.p),
                             RMul(RSub(I(1), self.p), mm[j]))]
         IN  IF magnitude THEN npabs(resp) ELSE resp

-----------------------------------------------------------------------------
(* cardioid_func *)

CoefAssertNoUpper(coef) == RGeq(coef, I(0))

\* lines 237-238
CoefAssert(coef) == RGeq(coef, I(0)) /\ RLeq(coef, I(1))

\* np.linalg.norm(v)
norm(v) == RSqrt(NormSq(v))

\* line 242: x /= np.linalg.norm(x, axis=0)
NormalizeColumns(a) ==
    [i \in 1..Shape0(a) |-> [j \in 1..Shape1(a) |-> RDiv(a[i][j], norm(Col(a, j)))]]

\* line 243: direction /= np.linalg.norm(direction)
NormalizeVector(v) == [i \in 1..Len(v) |-> RDiv(v[i], norm(v))]

\* lines 237-250; xs and dir are the caller's arrays, returned as the call
\* leaves them
cardioid_func(xs, dir, coef, gain, normalize, magnitude) ==
    IF ~CoefAssert(coef)
    THEN [status |-> "AssertionError", x |-> xs, direction |-> dir, ret |-> <<>>]
    ELSE LET x1   == IF normalize THEN NormalizeColumns(xs) ELSE xs
             d1   == IF normalize THEN NormalizeVector(dir) ELSE dir
             mm   == matmul(d1, x1)
             resp == [j \in 1..Shape1(x1) |->
                        RMul(gain, RAdd(coef, RMul(RSub(I(1), coef), mm[j])))]
         IN  [status |-> "ok", x |-> x1, direction |-> d1,
              ret |-> IF magnitude THEN npabs(resp) ELSE resp]

-----------------------------------------------------------------------------
(* Inputs *)

\* degrees given to DirectionVector(..., degrees=True), radians (in units of
\* pi) given with degrees=False; the accepted ones are multiples of pi/2
AzimuthIn(deg) == IF deg THEN {I(90)} ELSE {Rat(1, 2)}
ColatitudeIn(deg) ==
    IF deg THEN {None, I(-1), I(0), I(90), I(180), I(181), I(270)}
           ELSE {None, Rat(-1, 2), I(0), Rat(1, 2), I(1), Rat(3, 2)}

Gains == {I(1), I(2)}

\* columns of the coord argument of get_response
PointCols == << <<I(1), I(0), I(0)>>, <<I(-1), I(0), I(0)>>,
               <<I(0), I(0), I(1)>>, <<Rat(3, 5), Rat(4, 5), I(0)>>,
               <<I(0), I(0), I(0)>> >>

\* the n columns of the ring cols that start at column k
Window(cols, k, n) == [j \in 1..n |-> cols[((k + j - 2) % Len(cols)) + 1]]
Windows(cols) == {Window(cols, k, n) : k \in 1..Len(cols), n \in 1..MaxN}

CoordIn == {FromCols(cs, 3) : cs \in Windows(PointCols)}

\* the caller's arrays given to cardioid_func: float arrays whose columns
\* have a non-zero length with a rational square root
FuncCols == << <<I(1), I(0), I(0)>>, <<I(0), I(0), I(-2)>>,
              <<I(3), I(4), I(0)>>, <<Rat(3, 5), Rat(4, 5), I(0)>> >>
FuncXIn == {FromCols(cs, 3) : cs \in Windows(FuncCols)}
FuncDirIn == {FuncCols[k] : k \in 1..Len(FuncCols)}
CoefIn == {Rat(-1, 10), I(0), Rat(1, 4), Rat(1, 2), I(1), Rat(11, 10)}

-----------------------------------------------------------------------------
(* The object model: DirectionVector objects on a heap, one CardioidFamily *)

NoCall == [op |-> "none"]

InitObjects ==
    /\ heap = << DirectionVector(I(0), I(90), TRUE) >>
    /\ model = CardioidFamily(Ref(1), FIGURE_EIGHT, I(1))
    /\ handed = {}
    /\ last = NoCall

\* DirectionVector(azimuth, colatitude, degrees)
NewDirectionVector ==
    \E deg \in BOOLEAN :
      \E azimuth \in AzimuthIn(deg), colatitude \in ColatitudeIn(deg) :
        LET ok == ColatitudeAssert(ConvertColatitude(colatitude, deg)) IN
        /\ ok => Len(heap) < MaxObjs
        /\ heap' = IF ok THEN Append(heap, DirectionVector(azimuth, colatitude, deg))
                         ELSE heap
        /\ last' = [op |-> "DirectionVector", azimuth |-> azimuth,
                    colatitude |-> colatitude, degrees |-> deg, ok |-> ok,
                    id |-> IF ok THEN Len(heap) + 1 ELSE 0]
        /\ UNCHANGED <<model, handed>>

OrientationArgs == {Ref(id) : id \in 1..Len(heap)} \cup {NotADirectionVector}

\* CardioidFamily(orientation, pattern_enum, gain)
NewCardioidFamily ==
    \E orientation \in OrientationArgs, pattern_enum \in DirectivityPattern,
       gain \in Gains :
        LET ok == IsDirectionVector(orientation) IN
        /\ model' = IF ok THEN CardioidFamily(orientation, pattern_enum, gain) ELSE model
        /\ last' = [op |-> "CardioidFamily", ok |-> ok]
        /\ UNCHANGED <<heap, handed>>

\* model.set_orientation(orientation)
set_orientation ==
    \E orientation \in OrientationArgs :
        LET ok  == IsDirectionVector(orientation)
            res == SetOrientation(heap, model, orientation) IN
        /\ heap'  = IF ok THEN res.heap ELSE heap
        /\ model' = IF ok THEN res.model ELSE model
        /\ last'  = [op |-> "set_orientation", orientation |-> orientation,
                     ok |-> ok, before |-> model.orientation]
        /\ UNCHANGED handed

\* the caller reads the orientation the model holds: the unit_vector property
\* returns the array of the DirectionVector itself, get_azimuth and
\* get_colatitude its angles
ReadOrientation ==
    /\ handed' = handed \cup
          { [obj        |-> model.orientation,
             unit_v     |-> unit_vector(heap[model.orientation]),
             azimuth    |-> get_azimuth(heap, model, TRUE),
             colatitude |-> get_colatitude(heap, model, TRUE)] }
    /\ last' = [op |-> "read"]
    /\ UNCHANGED <<heap, model>>

\* model.get_response(coord, magnitude)
GetResponse ==
    \E coord \in CoordIn, magnitude \in BOOLEAN :
        /\ last' = [op |-> "get_response", self |-> model,
                    u |-> unit_vector(heap[model.orientation]),
                    coord |-> coord, magnitude |-> magnitude,
                    ret |-> get_response(heap, model, coord, magnitude)]
        /\ UNCHANGED <<heap, model, handed>>

-----------------------------------------------------------------------------
(* The caller of cardioid_func and its two arrays *)

InitFunc ==
    /\ x = FromCols(<< <<I(1), I(0), I(0)>> >>, 3)
    /\ direction = <<I(1), I(0), I(0)>>
    /\ call = NoCall

\* the arrays the caller has built
InitFuncInputs ==
    /\ x \in FuncXIn
    /\ direction \in FuncDirIn
    /\ call = NoCall

\* cardioid_func(x, direction, coef, gain, normalize, magnitude)
CardioidFunc ==
    \E coef \in CoefIn, gain \in Gains, normalize \in BOOLEAN, magnitude \in BOOLEAN :
      \E r \in {cardioid_func(x, direction, coef, gain, normalize, magnitude)} :
        /\ x' = r.x
        /\ direction' = r.direction
        /\ call' = [op |-> "cardioid_func", x_before |-> x,
                    direction_before |-> direction, coef |-> coef, gain |-> gain,
                    normalize |-> normalize, magnitude |-> magnitude,
                    status |-> r.status, ret |-> r.ret]

-----------------------------------------------------------------------------
(* source_angle_shoebox; the arrays hold integers *)

\* an angle of np.arctan2(y, x), as the direction it stands for: the
\* arguments in lowest terms; arctan2(0, 0) is 0, the angle of (0, 1)
arctan2(y, xx) ==
    IF y = 0 /\ xx = 0 THEN [y |-> 0, x |-> 1]
    ELSE LET g == GCD(Abs(y), Abs(xx)) IN [y |-> y \div g, x |-> xx \div g]

Sgn(n) == IF n < 0 THEN -1 ELSE IF n > 0 THEN 1 ELSE 0

\* the angle np.pi/2 - np.arcsin(z / d) with d the square root of d2, as the
\* value of its cosine z/d: its sign and its square in lowest terms; 0/0 is nan
ColatitudeOf(z, d2) ==
    IF d2 = 0 THEN [nan |-> TRUE, sgn |-> 0, num |-> 0, den |-> 1]
    ELSE LET g == GCD(z * z, d2) IN
         [nan |-> FALSE, sgn |-> Sgn(z), num |-> (z * z) \div g, den |-> d2 \div g]

\* np.pi / 2, as an angle of the same kind
HalfPi == ColatitudeOf(0, 1)

\* numpy broadcasting of two arrays with the same number of rows
Broadcastable(n1, n2) == n1 = n2 \/ n1 = 1 \/ n2 = 1
Max(a, b) == IF a >= b THEN a ELSE b
BCol(a, j) == IF Shape1(a) = 1 THEN 1 ELSE j

\* line 286
Displacement(isa, m) ==
    [i \in 1..Shape0(isa) |-> [j \in 1..Shape1(isa) |-> isa[i][j] - m[i]]]

\* line 287: np.linalg.norm(p_vector_array, axis=0), squared
DistanceSq(pv) ==
    [j \in 1..Shape1(pv) |->
        LET RECURSIVE S(_)
            S(i) == IF i = 0 THEN 0 ELSE pv[i][j] * pv[i][j] + S(i - 1)
        IN  S(Shape0(pv))]

ExponentNoPlusOne(n) == n

\* line 291: n_array + np.ones_like(image_source_array), elementwise
Exponent(n) == n + 1

\* np.power(-1, k)
MinusOneToThe(k) == IF k % 2 = 0 THEN 1 ELSE -1

PowerArrayFirstColumn(isa, n) ==
    [i \in 1..Shape0(isa) |->
        [j \in 1..Max(Shape1(isa), Shape1(n)) |-> MinusOneToThe(Exponent(n[i][1]))]]

\* lines 290-291
PowerArray(isa, n) ==
    [i \in 1..Shape0(isa) |->
        [j \in 1..Max(Shape1(isa), Shape1(n)) |->
            MinusOneToThe(Exponent(n[i][BCol(n, j)]))]]

\* line 292
PDash(pv, pw) ==
    [i \in 1..Shape0(pv) |->
        [j \in 1..Max(Shape1(pv), Shape1(pw)) |->
            pv[i][BCol(pv, j)] * pw[i][BCol(pw, j)]]]

Failed(e) == [status |-> e, p_vector |-> <<>>, p_dash |-> <<>>,
              azimuth |-> <<>>, colatitude |-> <<>>]

\* lines 278-301
source_angle_shoebox(isa, n, m) ==
    LET dim       == Shape0(isa)
        n_sources == Shape1(isa)
    IN
    IF Shape0(n) # dim \/ Len(m) # dim THEN Failed("AssertionError")
    ELSE IF ~Broadcastable(n_sources, Shape1(n)) THEN Failed("ValueError")
    ELSE IF dim < 2 THEN Failed("IndexError")
    ELSE
      LET pv == Displacement(isa, m)
          d2 == DistanceSq(pv)
          pd == PDash(pv, PowerArray(isa, n))
          M  == Shape1(pd)
      IN  [status     |-> "ok",
           p_vector   |-> pv,
           p_dash     |-> pd,
           azimuth    |-> [j \in 1..M |-> arctan2(pd[2][j], pd[1][j])],
           colatitude |->
              IF dim = 2 THEN [j \in 1..n_sources |-> HalfPi]
              ELSE [j \in 1..M |-> ColatitudeOf(pd[3][j], d2[BCol(pv, j)])]]

\* inputs: vectors of up to four components, cut to the dimension asked for
Dims == 1..4
PosBase == << <<3, 4, 0, 1>>, <<1, 2, 2, 0>>, <<-3, 0, 4, 0>> >>
MicBase == { <<0, 0, 0, 0>>, <<1, 2, 2, 0>> }
Cut(v, D) == [i \in 1..D |-> v[i]]
Zeros(D, N) == [i \in 1..D |-> [j \in 1..N |-> 0]]

RECURSIVE SumInts(_)
SumInts(s) == IF s = <<>> THEN 0 ELSE s[1] + SumInts(Tail(s))
\* the number of reflections recorded in n
Order(n) == SumInts([i \in 1..Shape0(n) |-> SumInts(n[i])])

Pending == Failed("pending")

InitBox ==
    /\ image_source_array = FromCols(<< <<3, 4, 0>> >>, 3)
    /\ n_array = Zeros(3, 1)
    /\ mic = <<0, 0, 0>>
    /\ out = Pending

\* the arrays the caller has built for the direct sound: any shape, with at
\* most one of n_array and mic of another dimension than image_source_array
OtherDim(D) == (D % 4) + 1
InitBoxInputs ==
    \E D \in Dims, N \in 1..MaxN, Nn \in 1..MaxN,
       mismatch \in {"none", "n_array", "mic"} :
      \E cs \in Windows(PosBase), m \in MicBase :
        /\ Len(cs) = N
        /\ image_source_array = FromCols(cs, D)
        /\ n_array = Zeros(IF mismatch = "n_array" THEN OtherDim(D) ELSE D, Nn)
        /\ mic = Cut(m, IF mismatch = "mic" THEN OtherDim(D) ELSE D)
        /\ out = Pending

\* source_angle_shoebox(image_source_array, n_array, mic)
Resolve ==
    /\ out = Pending
    /\ out' = source_angle_shoebox(image_source_array, n_array, mic)
    /\ UNCHANGED <<image_source_array, n_array, mic>>

\* the call for the image sources of the next order: one more reflection on
\* axis i in column j of n_array
Reflect ==
    \E i \in 1..Shape0(n_array), j \in 1..Shape1(n_array) :
        /\ out.status = "ok"
        /\ Order(n_array) < MaxOrder
        /\ n_array' = [n_array EXCEPT ![i][j] = @ + 1]
        /\ UNCHANGED <<image_source_array, mic>>
        /\ out' = source_angle_shoebox(image_source_array', n_array', mic')

-----------------------------------------------------------------------------
(* Specifications *)

\* the orientation of a model over its life
Init == InitObjects /\ InitFunc /\ InitBox

Next ==
    \/ NewDirectionVector /\ UNCHANGED <<funcVars, boxVars>>
    \/ set_orientation /\ UNCHANGED <<funcVars, boxVars>>
    \/ ReadOrientation /\ UNCHANGED <<funcVars, boxVars>>

Spec == Init /\ [][Next]_vars

\* the responses of the models that can be built
NextResp ==
    \/ NewDirectionVector /\ UNCHANGED <<funcVars, boxVars>>
    \/ NewCardioidFamily /\ UNCHANGED <<funcVars, boxVars>>
    \/ set_orientation /\ UNCHANGED <<funcVars, boxVars>>
    \/ GetResponse /\ UNCHANGED <<funcVars, boxVars>>

SpecResp == Init /\ [][NextResp]_vars

\* calls of cardioid_func on the caller's arrays
InitF == InitObjects /\ InitFuncInputs /\ InitBox

NextFunc == CardioidFunc /\ UNCHANGED <<objVars, boxVars>>

SpecFunc == InitF /\ [][NextFunc]_vars

\* calls of source_angle_shoebox
InitB == InitObjects /\ InitFunc /\ InitBoxInputs

NextBox ==
    \/ Resolve /\ UNCHANGED <<objVars, funcVars>>
    \/ Reflect /\ UNCHANGED <<objVars, funcVars>>

SpecBox == InitB /\ [][NextBox]_vars

-----------------------------------------------------------------------------
(* Properties of the responses (SpecResp) *)

VNeg(v) == [i \in 1..Len(v) |-> RNeg(v[i])]

Responded == last.op = "get_response"

\* C1: an omnidirectional model answers get_response with N values that are
\* all exactly 1, for every coordinates input, orientation, gain and
\* magnitude flag
C1_OmniResponseIsOne ==
    (Responded /\ last.self.pattern_name = "OMNI")
        => last.ret = ones(Shape1(last.coord))

\* C2: the signed response of a figure-eight model with orientation u and
\* gain g is +g at direction u and -g at direction -u
C2_FigureEightPlusMinusGain ==
    (Responded /\ last.self.pattern_name = "FIGURE_EIGHT" /\ ~last.magnitude)
        => \A j \in 1..Shape1(last.coord) :
              /\ Col(last.coord, j) = last.u => last.ret[j] = last.self.gain
              /\ Col(last.coord, j) = VNeg(last.u)
                    => last.ret[j] = RNeg(last.self.gain)

\* C10: for every pattern but the omnidirectional one, get_response returns
\* what cardioid_func returns for the same points, orientation, coefficient,
\* gain and magnitude flag with normalize off
C10_FuncEqualsModel ==
    (Responded /\ last.self.pattern_name # "OMNI")
        => last.ret = cardioid_func(last.coord, last.u, last.self.p,
                                    last.self.gain, FALSE, last.magnitude).ret

-----------------------------------------------------------------------------
(* Properties of the orientation (Spec) *)

\* 0 <= c <= pi for an angle c in units of pi
InZeroPi(c) == c[1] >= 0 /\ c[1] <= c[2]

\* the colatitude argument of the last construction, in units of pi
LastColatitude ==
    IF last.colatitude = None THEN <<1, 2>>
    ELSE IF last.degrees THEN Rat(last.colatitude[1], 180 * last.colatitude[2])
    ELSE last.colatitude

\* C6: a DirectionVector is constructed exactly when its colatitude in
\* radians (pi/2 when omitted) lies in [0, pi]; the value is stored as given,
\* and every DirectionVector that exists has its colatitude in [0, pi]
C6_ColatitudeInRange ==
    /\ \A id \in 1..Len(heap) : InZeroPi(heap[id].colatitude)
    /\ last.op = "DirectionVector" =>
          /\ last.ok <=> InZeroPi(LastColatitude)
          /\ last.ok => heap[last.id].colatitude = LastColatitude

\* a colatitude of pi, given as 180 degrees, was accepted
C6_Witness ==
    /\ last.op = "DirectionVector" /\ last.ok /\ last.degrees
    /\ last.colatitude = I(180)
    /\ heap[last.id].colatitude = Pi

\* C9: what was read from an orientation the model held keeps its value
\* whatever set_orientation did since; an accepted call swaps the model's
\* orientation for the argument, a rejected one leaves it as it was
C9_HandedOutUnchanged ==
    /\ \A h \in handed :
          /\ unit_vector(heap[h.obj]) = h.unit_v
          /\ DV_get_azimuth(heap[h.obj], TRUE) = h.azimuth
          /\ DV_get_colatitude(heap[h.obj], TRUE) = h.colatitude
    /\ last.op = "set_orientation" =>
          model.orientation = IF last.ok THEN last.orientation.id ELSE last.before

\* the orientation was replaced by another direction after its unit vector
\* was handed out
C9_Witness ==
    /\ last.op = "set_orientation" /\ last.ok
    /\ \E h \in handed :
          /\ h.obj = last.before
          /\ h.obj # model.orientation
          /\ h.unit_v # unit_vector(heap[model.orientation])

-----------------------------------------------------------------------------
(* Properties of cardioid_func (SpecFunc) *)

Called == call.op = "cardioid_func"

\* C7: cardioid_func fails for every coefficient outside [0, 1] before it
\* computes or modifies anything and accepts every coefficient in [0, 1]
C7_CoefficientValidated ==
    Called =>
        IF call.coef[1] >= 0 /\ call.coef[1] <= call.coef[2]
        THEN call.status = "ok" /\ Len(call.ret) = Shape1(call.x_before)
        ELSE /\ call.status = "AssertionError"
             /\ call.ret = <<>>
             /\ x = call.x_before
             /\ direction = call.direction_before

\* a coefficient of 1.1 was rejected in a call that asked to normalize
\* arrays that are not normalized
C7_Witness ==
    /\ Called /\ call.coef = Rat(11, 10) /\ call.normalize
    /\ call.status = "AssertionError"
    /\ NormSq(direction) # I(1)
    /\ \E j \in 1..Shape1(x) : NormSq(Col(x, j)) # I(1)

\* C8: a call of cardioid_func leaves the caller's points array and
\* direction array as they were
C8_InputsUnchanged ==
    Called => x = call.x_before /\ direction = call.direction_before

-----------------------------------------------------------------------------
(* Properties of source_angle_shoebox (SpecBox) *)

\* the arrays have the shapes the function is documented for
WellFormed ==
    /\ Shape0(image_source_array) \in {2, 3}
    /\ Shape0(n_array) = Shape0(image_source_array)
    /\ Shape1(n_array) = Shape1(image_source_array)
    /\ Len(mic) = Shape0(image_source_array)

Raw(i, j) == image_source_array[i][j] - mic[i]

RawDistanceSq(j) ==
    LET RECURSIVE S(_)
        S(i) == IF i = 0 THEN 0 ELSE Raw(i, j) * Raw(i, j) + S(i - 1)
    IN  S(Shape0(image_source_array))

ZeroOrder(j) == \A i \in 1..Shape0(n_array) : n_array[i][j] = 0

\* C3 as stated: with no reflection on any axis the adjusted displacement is
\* the raw displacement, the azimuth atan2(p_y - r_y, p_x - r_x) and in 3-D
\* the colatitude pi/2 - asin((p_z - r_z) / ||p - r||)
C3_ZeroOrderUnflipped ==
    (WellFormed /\ out.status = "ok") =>
        \A j \in 1..Shape1(image_source_array) : ZeroOrder(j) =>
            /\ \A i \in 1..Shape0(image_source_array) : out.p_dash[i][j] = Raw(i, j)
            /\ out.azimuth[j] = arctan2(Raw(2, j), Raw(1, j))
            /\ Shape0(image_source_array) = 3 =>
                  out.colatitude[j] = ColatitudeOf(Raw(3, j), RawDistanceSq(j))

\* C3, amended: with no reflection on any axis the adjusted displacement is
\* the raw displacement negated on every axis, the azimuth
\* atan2(-(p_y - r_y), -(p_x - r_x)) and in 3-D the colatitude
\* pi/2 - asin(-(p_z - r_z) / ||p - r||)
C3_ZeroOrderNegated ==
    (WellFormed /\ out.status = "ok") =>
        \A j \in 1..Shape1(image_source_array) : ZeroOrder(j) =>
            /\ \A i \in 1..Shape0(image_source_array) : out.p_dash[i][j] = -Raw(i, j)
            /\ out.azimuth[j] = arctan2(-Raw(2, j), -Raw(1, j))
            /\ Shape0(image_source_array) = 3 =>
                  out.colatitude[j] = ColatitudeOf(-Raw(3, j), RawDistanceSq(j))

\* angles were returned for a 3-D image source without reflections that is
\* off the receiver on every axis
C3_Witness ==
    /\ WellFormed /\ out.status = "ok" /\ Shape0(image_source_array) = 3
    /\ \E j \in 1..Shape1(image_source_array) :
          /\ ZeroOrder(j)
          /\ \A i \in 1..3 : Raw(i, j) # 0

\* the step from one call to the call with one more reflection on axis i of
\* image source j
OneMoreReflection(i, j) ==
    /\ n_array' = [n_array EXCEPT ![i][j] = @ + 1]
    /\ image_source_array' = image_source_array
    /\ mic' = mic
    /\ out.status = "ok"

\* C4: every adjusted displacement component is the raw component times
\* (-1)^(reflection count + 1) of its own axis and image source; one more
\* reflection on one axis of one image source negates that component and
\* leaves every other component of every image source as it was
C4_ParityPerAxisAndSource ==
    /\ [](WellFormed /\ out.status = "ok" =>
            \A i \in 1..Shape0(image_source_array), j \in 1..Shape1(image_source_array) :
                out.p_dash[i][j] =
                    Raw(i, j) * (IF n_array[i][j] % 2 = 0 THEN -1 ELSE 1))
    /\ [][ \A i \in 1..Shape0(n_array), j \in 1..Shape1(n_array) :
            (WellFormed /\ OneMoreReflection(i, j)) =>
                /\ out'.status = "ok"
                /\ \A k \in 1..Shape0(n_array), l \in 1..Shape1(n_array) :
                      out'.p_dash[k][l] =
                          IF k = i /\ l = j THEN -out.p_dash[k][l]
                                            ELSE out.p_dash[k][l] ]_vars

\* two image sources, one of them reflected, both off the receiver on the
\* reflected axis
C4_Witness ==
    /\ WellFormed /\ out.status = "ok" /\ Shape1(image_source_array) >= 2
    /\ \E i \in 1..Shape0(n_array) :
          /\ n_array[i][1] # n_array[i][2]
          /\ Raw(i, 1) # 0 /\ Raw(i, 2) # 0

\* C5: source_angle_shoebox fails unless positions and reflection counts
\* share a shape (D, N) with D in {2, 3} and the receiver has D components
C5_MismatchFails ==
    (out # Pending /\ ~WellFormed) => out.status # "ok"

====
